---------------------------- MODULE Spec2Model ----------------------------
(***************************************************************************)
(* Supplier-name resolution (utils_supplier_name.py) and the text cleaner  *)
(* and rule engine it is built on (utils_data_cleansing.py).               *)
(*                                                                         *)
(* A Python str is a sequence of one-character strings; None and str are   *)
(* the two variants of Optional[str] (NoneVal, Str(s)).  Similarity scores *)
(* and thresholds are fixed-point numbers in thousandths (0.7 is 700).     *)
(***************************************************************************)
EXTENDS Integers, Sequences, FiniteSets, TLC

(***************************************************************************)
(* Python str primitives used by the code.                                 *)
(***************************************************************************)

UpperLetters == <<"A","B","C","D","E","F","G","H","I","J","K","L","M",
                  "N","O","P","Q","R","S","T","U","V","W","X","Y","Z">>

LowerLetters == <<"a","b","c","d","e","f","g","h","i","j","k","l","m",
                  "n","o","p","q","r","s","t","u","v","w","x","y","z">>

\* str.strip() / str.split() whitespace
Whitespace == {" ", "\t", "\n"}

IsUpper(c) == \E i \in 1..Len(UpperLetters) : UpperLetters[i] = c

IsLower(c) == \E i \in 1..Len(LowerLetters) : LowerLetters[i] = c

IsCased(c) == IsUpper(c) \/ IsLower(c)

LowerChar(c) ==
    IF IsUpper(c)
    THEN LowerLetters[CHOOSE i \in 1..Len(UpperLetters) : UpperLetters[i] = c]
    ELSE c

UpperChar(c) ==
    IF IsLower(c)
    THEN UpperLetters[CHOOSE i \in 1..Len(LowerLetters) : LowerLetters[i] = c]
    ELSE c

\* str.lower()
RECURSIVE Lower(_)
Lower(s) == IF s = <<>> THEN <<>> ELSE <<LowerChar(s[1])>> \o Lower(Tail(s))

\* str.title(): a cased character is upper-cased when the character before
\* it is not cased (or there is none) and lower-cased otherwise.
RECURSIVE TitleFrom(_, _)
TitleFrom(s, previous_is_cased) ==
    IF s = <<>> THEN <<>>
    ELSE <<IF previous_is_cased THEN LowerChar(s[1]) ELSE UpperChar(s[1])>>
         \o TitleFrom(Tail(s), IsCased(s[1]))

Title(s) == TitleFrom(s, FALSE)

RECURSIVE LStripSet(_, _)
LStripSet(s, chars) ==
    IF s # <<>> /\ s[1] \in chars THEN LStripSet(Tail(s), chars) ELSE s

RECURSIVE RStripSet(_, _)
RStripSet(s, chars) ==
    IF s # <<>> /\ s[Len(s)] \in chars
    THEN RStripSet(SubSeq(s, 1, Len(s) - 1), chars)
    ELSE s

\* str.strip(): all whitespace, both ends
Strip(s) == RStripSet(LStripSet(s, Whitespace), Whitespace)

IsPrefix(p, s) == Len(p) <= Len(s) /\ SubSeq(s, 1, Len(p)) = p

\* str.startswith
StartsWith(s, p) == IsPrefix(p, s)

\* `p in s` for strings
Contains(s, p) ==
    \E i \in 0..(Len(s) - Len(p)) : SubSeq(s, i + 1, i + Len(p)) = p

\* str.replace(old, new) for a non-empty old: leftmost, non-overlapping
RECURSIVE Replace(_, _, _)
Replace(s, old, new) ==
    IF Len(s) < Len(old) THEN s
    ELSE IF IsPrefix(old, s)
         THEN new \o Replace(SubSeq(s, Len(old) + 1, Len(s)), old, new)
         ELSE <<s[1]>> \o Replace(Tail(s), old, new)

\* str.split(sep) for a one-character sep: empty tokens are kept
RECURSIVE SplitOn(_, _)
SplitOn(s, sep) ==
    IF \A i \in 1..Len(s) : s[i] # sep THEN <<s>>
    ELSE LET k == CHOOSE i \in 1..Len(s) :
                    s[i] = sep /\ \A j \in 1..(i-1) : s[j] # sep
         IN  <<SubSeq(s, 1, k - 1)>> \o SplitOn(SubSeq(s, k + 1, Len(s)), sep)

\* sep.join(tokens)
RECURSIVE Join(_, _)
Join(tokens, sep) ==
    IF tokens = <<>> THEN <<>>
    ELSE IF Len(tokens) = 1 THEN tokens[1]
    ELSE tokens[1] \o sep \o Join(Tail(tokens), sep)

\* x in list
InList(x, xs) == \E i \in 1..Len(xs) : xs[i] = x

(***************************************************************************)
(* utils_data_cleansing.rough_clean                                        *)
(***************************************************************************)

punct_to_delete == << <<".">>, <<"\"">>, <<"#">>, <<",">>, <<";">> >>

punct_to_space == << <<"/">>, <<"-">>, <<" ", " ">>, <<" ", " ", " ">> >>

stopwords_to_delete ==
    << <<"g","m","b","h"," ","&"," ","c","o","k","g">>,
       <<"g","m","b","h"," ","&"," ","c","o"," ","k","g">>,
       <<"g","m","b","h"," ","&"," ","c","o">>,
       <<"g","m","b","h">>, <<"g","m","b">>, <<"g","m","h">>,
       <<"l","t","d">>,
       <<"s","p"," ","z"," ","o"," ","o">>,
       <<"s","a">>, <<"s","a","s">>, <<"a","b">>, <<"n","v">>,
       <<"a","g">>, <<"b","v">>, <<"s","p">>, <<"s","p","z">> >>

\* for w in words: t = t.replace(w, new)
RECURSIVE ReplaceEach(_, _, _)
ReplaceEach(t, words, new) ==
    IF words = <<>> THEN t
    ELSE ReplaceEach(Replace(t, words[1], new), Tail(words), new)

\* [i for i in t if i not in stopwords_to_delete]
RECURSIVE DropStopwords(_)
DropStopwords(toks) ==
    IF toks = <<>> THEN <<>>
    ELSE (IF InList(toks[1], stopwords_to_delete) THEN <<>> ELSE <<toks[1]>>)
         \o DropStopwords(Tail(toks))

rough_clean(text) ==
    LET t0 == LStripSet(Lower(text), {" "})
        t1 == ReplaceEach(t0, punct_to_delete, <<>>)
        t2 == ReplaceEach(t1, punct_to_space, <<" ">>)
        toks == DropStopwords(SplitOn(t2, " "))
    IN  RStripSet(Join(toks, <<" ">>), {" "})

(***************************************************************************)
(* utils_data_cleansing.apply_rule                                         *)
(*                                                                         *)
(* A rule is [type, pattern, replacement].  Regex patterns are restricted  *)
(* to literals, ".", a leading "^" and a trailing "$"; re.search on such a *)
(* pattern is RegexSearch.                                                 *)
(***************************************************************************)

RegexCore(p) ==
    LET a == IF p # <<>> /\ p[1] = "^" THEN Tail(p) ELSE p
    IN  IF a # <<>> /\ a[Len(a)] = "$" THEN SubSeq(a, 1, Len(a) - 1) ELSE a

RegexMatchAt(core, s, i) ==
    /\ i + Len(core) <= Len(s)
    /\ \A k \in 1..Len(core) :
          \/ core[k] = "." /\ s[i + k] # "\n"
          \/ core[k] # "." /\ core[k] = s[i + k]

\* rx.search(s) is not None
RegexSearch(p, s) ==
    LET core == RegexCore(p)
        atStart == p # <<>> /\ p[1] = "^"
        atEnd == p # <<>> /\ p[Len(p)] = "$" /\ p # <<"^">>
    IN  \E i \in 0..Len(s) :
          /\ RegexMatchAt(core, s, i)
          /\ atStart => i = 0
          /\ atEnd => i + Len(core) = Len(s)

\* the condition apply_rule tests for rule r on the cleaned text t
RuleHolds(r, t) ==
    \/ r.type = "equals" /\ Lower(r.pattern) = Lower(t)
    \/ r.type = "regex" /\ RegexSearch(r.pattern, Lower(t))
    \/ r.type = "startswith" /\ StartsWith(t, Lower(r.pattern))
    \/ r.type = "contains" /\ Contains(t, r.pattern)

\* the loop run to its end, a later rule that holds overriding an earlier one
ApplyRuleFrom_LastWins(t, rules, i) ==
    LET holding == {j \in i..Len(rules) : RuleHolds(rules[j], t)}
    IN  IF holding = {} THEN [out |-> Title(t), evaluated |-> Len(rules)]
        ELSE [out |-> rules[CHOOSE j \in holding :
                                \A k \in holding : k <= j].replacement,
              evaluated |-> Len(rules)]

\* the for loop of apply_rule from rule i on: the value returned and the
\* number of rules whose condition was evaluated
RECURSIVE ApplyRuleFrom(_, _, _)
ApplyRuleFrom(t, rules, i) ==
    IF i > Len(rules) THEN [out |-> Title(t), evaluated |-> Len(rules)]
    ELSE IF RuleHolds(rules[i], t)
         THEN [out |-> rules[i].replacement, evaluated |-> i]
         ELSE ApplyRuleFrom(t, rules, i + 1)

ApplyRuleRun(text, rules) == ApplyRuleFrom(rough_clean(text), rules, 1)

apply_rule(text, rules) == ApplyRuleRun(text, rules).out

(***************************************************************************)
(* The similarity model: TfidfVectorizer(analyzer="char_wb",               *)
(* ngram_range=(2, 4)) with its defaults (term counts, smooth idf, l2      *)
(* norm) and cosine_similarity.  idf = ln((1 + n) / (1 + df)) + 1 is kept  *)
(* in tenths and a score in thousandths, so that equal vectors score 1000  *)
(* and a zero vector scores 0.                                             *)
(***************************************************************************)

NgramMin == 2

NgramMax == 4

\* text.split(): the maximal runs of non-whitespace characters
RECURSIVE SplitWords(_)
SplitWords(s) ==
    LET t == LStripSet(s, Whitespace)
    IN  IF t = <<>> THEN <<>>
        ELSE LET k == CHOOSE i \in 1..Len(t) :
                        /\ \A j \in 1..i : t[j] \notin Whitespace
                        /\ (i = Len(t) \/ t[i + 1] \in Whitespace)
             IN  <<SubSeq(t, 1, k)>> \o SplitWords(SubSeq(t, k + 1, Len(t)))

\* the n-grams of one padded word w, for n from n to NgramMax; a word no
\* longer than n is counted once and ends the loop
RECURSIVE Windows(_, _, _)
Windows(w, n, i) ==
    IF i + n - 1 > Len(w) THEN <<>>
    ELSE <<SubSeq(w, i, i + n - 1)>> \o Windows(w, n, i + 1)

RECURSIVE WordNgrams(_, _)
WordNgrams(w, n) ==
    IF n > NgramMax THEN <<>>
    ELSE IF Len(w) <= n THEN <<w>>
    ELSE Windows(w, n, 1) \o WordNgrams(w, n + 1)

RECURSIVE WordsNgrams(_)
WordsNgrams(words) ==
    IF words = <<>> THEN <<>>
    ELSE WordNgrams(<<" ">> \o words[1] \o <<" ">>, NgramMin)
         \o WordsNgrams(Tail(words))

\* _char_wb_ngrams(text), with multiplicity
CharWbNgrams(text) == WordsNgrams(SplitWords(Lower(text)))

\* 1000 * ln(k), k = 1..12
Ln1000 == <<0, 693, 1099, 1386, 1609, 1792, 1946, 2079, 2197, 2303, 2398, 2485>>

\* vectorizer.fit(docs): the documents' n-grams; the vocabulary is their union
RECURSIVE Fit(_)
Fit(docs) ==
    IF docs = <<>> THEN <<>> ELSE <<CharWbNgrams(docs[1])>> \o Fit(Tail(docs))

DocFreq(model, g) == Cardinality({i \in 1..Len(model) : InList(g, model[i])})

VocabularyEmpty(model) == \A i \in 1..Len(model) : model[i] = <<>>

\* idf of an n-gram of the vocabulary, in tenths
Idf(model, g) ==
    (Ln1000[1 + Len(model)] - Ln1000[1 + DocFreq(model, g)] + 1000 + 50) \div 100

Count(g, grams) == Cardinality({j \in 1..Len(grams) : grams[j] = g})

\* sum over the vocabulary of tfidf_a(g) * tfidf_b(g), before normalisation;
\* an n-gram outside the vocabulary has no column
RECURSIVE DotFrom(_, _, _, _)
DotFrom(model, a, b, i) ==
    IF i > Len(a) THEN 0
    ELSE LET c == Count(a[i], b)
             idf == Idf(model, a[i])
             w == IF c = 0 \/ DocFreq(model, a[i]) = 0 THEN 0
                  ELSE c * idf * idf
         IN  w + DotFrom(model, a, b, i + 1)

Dot(model, a, b) == DotFrom(model, a, b, 1)

RECURSIVE ISqrtFrom(_, _)
ISqrtFrom(x, r) ==
    LET r2 == (r + x \div r) \div 2
    IN  IF r2 >= r THEN r ELSE ISqrtFrom(x, r2)

ISqrt(x) == IF x = 0 THEN 0 ELSE ISqrtFrom(x, x)

\* cosine_similarity of the tf-idf rows of n-gram lists a and b, na being
\* the squared norm of a
Cosine(model, a, na, b) ==
    LET nb == Dot(model, b, b)
        ab == Dot(model, a, b)
    IN  IF na = 0 \/ nb = 0 \/ ab = 0 THEN 0
        ELSE (1000 * ab) \div ISqrt(na * nb)

\* cosine_similarity(query, rows).ravel()
RECURSIVE CosineRowsFrom(_, _, _, _, _)
CosineRowsFrom(model, query, nq, rows, i) ==
    IF i > Len(rows) THEN <<>>
    ELSE <<Cosine(model, query, nq, rows[i])>>
         \o CosineRowsFrom(model, query, nq, rows, i + 1)

CosineRows(model, query, rows) ==
    CosineRowsFrom(model, query, Dot(model, query, query), rows, 1)

\* numpy argmax: the first index of the maximum
ArgMax(scores) ==
    CHOOSE i \in 1..Len(scores) :
        /\ \A j \in 1..Len(scores) : scores[j] <= scores[i]
        /\ \A j \in 1..(i - 1) : scores[j] < scores[i]

(***************************************************************************)
(* Optional[str]                                                           *)
(***************************************************************************)

NoneVal == [tag |-> "None", str |-> <<>>]

Str(s) == [tag |-> "Str", str |-> s]

\* rules: Optional[Sequence[dict]]
NoRules == [given |-> FALSE, list |-> <<>>]

Rules(l) == [given |-> TRUE, list |-> l]

\* `if rules:`
Truthy(rules) == rules.given /\ rules.list # <<>>

(***************************************************************************)
(* utils_supplier_name.guess_supplier_name                                 *)
(***************************************************************************)

\* the empty-list check left out
NoReferences_Never(known_list) == FALSE

\* lines 111-113: `if not known_list`
NoReferences(known_list) == known_list = <<>>

\* the exact-match shortcut left out
ExactMatch_Never(cleaned, known_list) == FALSE

\* line 121: `cleaned in known_list`
ExactMatch(cleaned, known_list) == InList(cleaned, known_list)

\* the comparison turned round
Accept_Inverted(best_score, min_score) == best_score <= min_score

\* the comparison left out
Accept_Always(best_score, min_score) == TRUE

\* lines 137 and 234: `best_score >= min_score`
Accept(best_score, min_score) == best_score >= min_score

\* the rules left unapplied
Candidate_IgnoresRules(name, rules) == Title(rough_clean(name))

\* lines 115-118: the candidate string
Candidate(name, rules) ==
    IF Truthy(rules) THEN apply_rule(name, rules.list)
    ELSE Title(rough_clean(name))

\* lines 130-135: the scores of the cleaned target against the cleaned
\* reference entries, under a model fitted on [target] + candidates
SingleScores(target, normalized_candidates) ==
    LET model == Fit(<<target>> \o normalized_candidates)
    IN  CosineRows(model, model[1], Tail(model))

\* [rough_clean(candidate) for candidate in known_list]
RECURSIVE CleanAll(_)
CleanAll(names) ==
    IF names = <<>> THEN <<>>
    ELSE <<rough_clean(names[1])>> \o CleanAll(Tail(names))

\* the whole call; path names the return statement taken
GuessRun(name, known_list, rules, min_score) ==
    IF name.tag = "None"
    THEN [value |-> NoneVal, path |-> "no_name", cleaned |-> <<>>,
          best_index |-> 0, best_score |-> 0]
    ELSE IF NoReferences(known_list)
    THEN [value |-> NoneVal, path |-> "no_refs", cleaned |-> <<>>,
          best_index |-> 0, best_score |-> 0]
    ELSE
    LET cleaned == Candidate(name.str, rules)
        target == rough_clean(cleaned)
        normalized_candidates == CleanAll(known_list)
        similarities == SingleScores(target, normalized_candidates)
        best_index == ArgMax(similarities)
        best_score == similarities[best_index]
    IN  IF ExactMatch(cleaned, known_list)
        THEN [value |-> Str(cleaned), path |-> "exact", cleaned |-> cleaned,
              best_index |-> 0, best_score |-> 0]
        ELSE IF Strip(target) = <<>>
                \/ \A i \in 1..Len(known_list) : normalized_candidates[i] = <<>>
        THEN [value |-> Str(cleaned), path |-> "unscored", cleaned |-> cleaned,
              best_index |-> 0, best_score |-> 0]
        ELSE [value |-> IF Accept(best_score, min_score)
                        THEN Str(known_list[best_index]) ELSE Str(cleaned),
              path |-> IF Accept(best_score, min_score)
                       THEN "match" ELSE "fallback",
              cleaned |-> cleaned,
              best_index |-> best_index, best_score |-> best_score]

guess_supplier_name(name, known_suppliers, rules, min_score) ==
    GuessRun(name, known_suppliers, rules, min_score).value

(***************************************************************************)
(* utils_supplier_name.guess_supplier_name_from_priority                   *)
(***************************************************************************)

\* the loop with candidate.strip() left out
RECURSIVE PriorityFrom_NoStrip(_, _, _, _, _)
PriorityFrom_NoStrip(names, i, known_suppliers, rules, min_score) ==
    IF i > Len(names) THEN [value |-> NoneVal, examined |-> Len(names)]
    ELSE IF names[i].tag = "None" \/ names[i].str = <<>>
    THEN PriorityFrom_NoStrip(names, i + 1, known_suppliers, rules, min_score)
    ELSE [value |-> guess_supplier_name(names[i], known_suppliers, rules,
                                        min_score),
          examined |-> i]

\* the for loop from candidate i on: the value returned and the index of the
\* last candidate examined
RECURSIVE PriorityFrom(_, _, _, _, _)
PriorityFrom(names, i, known_suppliers, rules, min_score) ==
    IF i > Len(names) THEN [value |-> NoneVal, examined |-> Len(names)]
    ELSE IF names[i].tag = "None"
    THEN PriorityFrom(names, i + 1, known_suppliers, rules, min_score)
    ELSE LET candidate == Strip(names[i].str)
             resolved == guess_supplier_name(Str(candidate), known_suppliers,
                                             rules, min_score)
         IN  IF candidate = <<>>
             THEN PriorityFrom(names, i + 1, known_suppliers, rules, min_score)
             ELSE IF resolved.tag # "None"
             THEN [value |-> resolved, examined |-> i]
             ELSE PriorityFrom(names, i + 1, known_suppliers, rules, min_score)

PriorityRun(names, known_suppliers, rules, min_score) ==
    IF known_suppliers = <<>> THEN [value |-> NoneVal, examined |-> 0]
    ELSE PriorityFrom(names, 1, known_suppliers, rules, min_score)

guess_supplier_name_from_priority(names, known_suppliers, rules, min_score) ==
    PriorityRun(names, known_suppliers, rules, min_score).value

(***************************************************************************)
(* utils_supplier_name.build_tfidf_matcher, batch_guess_supplier_names     *)
(***************************************************************************)

\* the model fitted on the cleaned reference names alone; fit_transform
\* raises ValueError when no document has an n-gram
build_tfidf_matcher(known_suppliers) == Fit(CleanAll(known_suppliers))

\* lines 228-229: the scores of a target under the shared model
BatchScores(model, target) == CosineRows(model, CharWbNgrams(target), model)

\* the loop body for one raw name (lines 213-238)
BatchItem(raw, model, known_list, rules, min_score) ==
    IF raw.tag = "None"
    THEN [value |-> NoneVal, path |-> "no_name", cleaned |-> <<>>,
          best_index |-> 0, best_score |-> 0]
    ELSE
    LET prepared == Strip(raw.str)
        cleaned == Candidate(prepared, rules)
        target == rough_clean(cleaned)
        similarities == BatchScores(model, target)
        best_index == ArgMax(similarities)
        best_score == similarities[best_index]
    IN  IF prepared = <<>>
        THEN [value |-> NoneVal, path |-> "blank", cleaned |-> <<>>,
              best_index |-> 0, best_score |-> 0]
        ELSE IF Strip(target) = <<>>
        THEN [value |-> Str(cleaned), path |-> "unscored", cleaned |-> cleaned,
              best_index |-> 0, best_score |-> 0]
        ELSE [value |-> IF Accept(best_score, min_score)
                        THEN Str(known_list[best_index]) ELSE Str(cleaned),
              path |-> IF Accept(best_score, min_score)
                       THEN "match" ELSE "fallback",
              cleaned |-> cleaned,
              best_index |-> best_index, best_score |-> best_score]

RECURSIVE BatchItems(_, _, _, _, _)
BatchItems(names, model, known_list, rules, min_score) ==
    IF names = <<>> THEN <<>>
    ELSE <<BatchItem(names[1], model, known_list, rules, min_score)>>
         \o BatchItems(Tail(names), model, known_list, rules, min_score)

RECURSIVE NoneItems(_)
NoneItems(names) ==
    IF names = <<>> THEN <<>>
    ELSE << [value |-> NoneVal, path |-> "no_refs", cleaned |-> <<>>,
             best_index |-> 0, best_score |-> 0] >> \o NoneItems(Tail(names))

\* the whole call: raised is the ValueError of an empty vocabulary
BatchRun(names, known_suppliers, rules, min_score) ==
    LET model == build_tfidf_matcher(known_suppliers)
    IN  IF known_suppliers = <<>>
        THEN [raised |-> FALSE, items |-> NoneItems(names)]
        ELSE IF VocabularyEmpty(model)
        THEN [raised |-> TRUE, items |-> <<>>]
        ELSE [raised |-> FALSE,
              items |-> BatchItems(names, model, known_suppliers, rules, min_score)]

RECURSIVE Values(_)
Values(items) ==
    IF items = <<>> THEN <<>> ELSE <<items[1].value>> \o Values(Tail(items))

\* the list returned (when the call returns)
batch_guess_supplier_names(names, known_suppliers, rules, min_score) ==
    Values(BatchRun(names, known_suppliers, rules, min_score).items)

(***************************************************************************)
(* difflib.SequenceMatcher(None, a, b).ratio() = 2 * M / T, kept as the    *)
(* fraction [num |-> 2 * M, den |-> T]                                     *)
(***************************************************************************)

\* find_longest_match: the longest common block, the earliest in a and then
\* the earliest in b among the longest; <<0, 0, 0>> when there is none
LongestMatch(a, b) ==
    LET blocks == {<<i, j, k>> \in (1..Len(a)) \X (1..Len(b)) \X (1..Len(a)) :
                      /\ i + k - 1 <= Len(a)
                      /\ j + k - 1 <= Len(b)
                      /\ SubSeq(a, i, i + k - 1) = SubSeq(b, j, j + k - 1)}
    IN  IF blocks = {} THEN <<0, 0, 0>>
        ELSE CHOOSE m \in blocks : \A o \in blocks :
                \/ o[3] < m[3]
                \/ o[3] = m[3] /\ m[1] < o[1]
                \/ o[3] = m[3] /\ m[1] = o[1] /\ m[2] <= o[2]

\* get_matching_blocks: the total size of the matching blocks
RECURSIVE MatchSize(_, _)
MatchSize(a, b) ==
    LET m == LongestMatch(a, b)
    IN  IF m[3] = 0 THEN 0
        ELSE m[3]
             + MatchSize(SubSeq(a, 1, m[1] - 1), SubSeq(b, 1, m[2] - 1))
             + MatchSize(SubSeq(a, m[1] + m[3], Len(a)),
                         SubSeq(b, m[2] + m[3], Len(b)))

Ratio(a, b) ==
    IF Len(a) + Len(b) = 0 THEN [num |-> 1, den |-> 1]
    ELSE [num |-> 2 * MatchSize(a, b), den |-> Len(a) + Len(b)]

\* x > y for fractions
RatioGt(x, y) == x.num * y.den > y.num * x.den

\* x >= t for a fraction x and a threshold t in thousandths
RatioGe(x, t) == 1000 * x.num >= t * x.den

(***************************************************************************)
(* utils_supplier_name.fuzzy_guess_supplier_name                           *)
(***************************************************************************)

\* the scan of lines 269-276 from entry i on; best_index 0 is best_match None
RECURSIVE FuzzyScan(_, _, _, _)
FuzzyScan(target, known_list, i, best) ==
    IF i > Len(known_list) THEN best
    ELSE LET ratio == Ratio(target, rough_clean(known_list[i]))
         IN  FuzzyScan(target, known_list, i + 1,
                       IF RatioGt(ratio, best.score)
                       THEN [score |-> ratio, index |-> i] ELSE best)

FuzzyRun(name, known_list, rules, min_ratio) ==
    IF name.tag = "None"
    THEN [value |-> NoneVal, path |-> "no_name", cleaned |-> <<>>,
          best_index |-> 0, best_score |-> [num |-> 0, den |-> 1]]
    ELSE IF known_list = <<>>
    THEN [value |-> NoneVal, path |-> "no_refs", cleaned |-> <<>>,
          best_index |-> 0, best_score |-> [num |-> 0, den |-> 1]]
    ELSE
    LET cleaned == Candidate(name.str, rules)
        target == rough_clean(cleaned)
        best == FuzzyScan(target, known_list, 1,
                          [score |-> [num |-> 0, den |-> 1], index |-> 0])
        accept == RatioGe(best.score, min_ratio)
    IN  IF Strip(target) = <<>>
        THEN [value |-> Str(cleaned), path |-> "unscored", cleaned |-> cleaned,
              best_index |-> 0, best_score |-> [num |-> 0, den |-> 1]]
        ELSE [value |-> IF ~accept THEN Str(cleaned)
                        ELSE IF best.index = 0 THEN NoneVal
                        ELSE Str(known_list[best.index]),
              path |-> IF accept THEN "match" ELSE "fallback",
              cleaned |-> cleaned,
              best_index |-> best.index, best_score |-> best.score]

fuzzy_guess_supplier_name(name, known_suppliers, rules, min_ratio) ==
    FuzzyRun(name, known_suppliers, rules, min_ratio).value

(***************************************************************************)
(* The calls a client makes: each action is one call of a public function  *)
(* on inputs drawn from the sets below, recorded with what it returned.    *)
(***************************************************************************)

MaxTextLen == 4

MaxRules == 2

MaxKnown == 2

MaxNames == 2

\* the strings over alphabet of length at most n
RECURSIVE StringsUpTo(_, _)
StringsUpTo(alphabet, n) ==
    IF n = 0 THEN {<<>>}
    ELSE LET shorter == StringsUpTo(alphabet, n - 1)
         IN  shorter \cup {Append(x, c) : x \in shorter, c \in alphabet}

\* texts handed to rough_clean
CleanAlphabet == {"a", "B", " ", "-", "/", "."}

Texts == StringsUpTo(CleanAlphabet, MaxTextLen)

\* reference names: "Zed Ag" cleans to the same text as "Zed", "Ag" to ""
KnownPool == { <<"Z","e","d">>, <<"Z","e","d"," ","A","g">>, <<"A","g">> }

KnownLists == StringsUpTo(KnownPool, MaxKnown)

\* raw names: absent, blank, members of KnownPool, near misses, a name with
\* leading whitespace other than a space, a name sharing nothing
RawStrings ==
    { <<>>, <<" ">>, <<"z","e","d">>, <<"Z","e","d">>,
      <<"Z","e","d"," ","A","g">>, <<"A","g">>, <<"z","e","b">>,
      <<"\t","o","x">>, <<"q","q">>, <<"z","e","d"," ","o","x">> }

RawNames == {NoneVal} \cup {Str(x) : x \in RawStrings}

\* names of a batch or a priority list
ListNames ==
    { NoneVal, Str(<<" ">>), Str(<<"z","e","b">>), Str(<<"\t","o","x">>) }

NameLists == StringsUpTo(ListNames, MaxNames)

\* min_score / min_ratio in thousandths: 0.0, 0.5, 1.1
Thresholds == {0, 500, 1100}

RulePool ==
    { [type |-> "equals", pattern |-> <<"Z","E","B">>,
       replacement |-> <<"Z","e","d">>],
      [type |-> "regex", pattern |-> <<"^","z",".","d">>,
       replacement |-> <<"A","g">>],
      [type |-> "startswith", pattern |-> <<"Q">>,
       replacement |-> <<"z","e","d">>],
      [type |-> "contains", pattern |-> <<"q">>,
       replacement |-> <<"Z","e","d"," ","L","t","d">>] }

RuleLists == StringsUpTo(RulePool, MaxRules)

\* the rules argument of a resolution call: none, empty, a list whose
\* replacements are reference names, a list whose replacements are not
RuleArgs ==
    { NoRules, Rules(<<>>),
      Rules(<< [type |-> "equals", pattern |-> <<"Z","E","B">>,
                replacement |-> <<"Z","e","d">>],
               [type |-> "regex", pattern |-> <<"^","z",".","d">>,
                replacement |-> <<"A","g">>] >>),
      Rules(<< [type |-> "contains", pattern |-> <<"q">>,
                replacement |-> <<"Z","e","d"," ","L","t","d">>],
               [type |-> "startswith", pattern |-> <<"Z","e">>,
                replacement |-> <<"z","e","d">>] >>) }

\* the thresholds of a batch or priority call
ListThresholds == {500, 1100}

\* the rules argument of a batch or priority call
ListRuleArgs ==
    { NoRules,
      Rules(<< [type |-> "startswith", pattern |-> <<"Z","e">>,
                replacement |-> <<"z","e","d">>] >>) }

NoCall == [fn |-> "none"]

VARIABLES
    pc,     \* "idle", "called" (arguments passed, body not yet run), "returned"
    call,   \* the call: the function and its arguments
    ret     \* what the call returned, once pc = "returned"

vars == <<pc, call, ret>>

Init == pc = "idle" /\ call = NoCall /\ ret = NoneVal

\* A Call_ action is a client calling the function with arguments of its
\* choice; the Run_ action is the function's body, run to its return.

Call_rough_clean ==
    /\ pc = "idle"
    /\ \E text \in Texts : call' = [fn |-> "rough_clean", text |-> text]
    /\ pc' = "called"
    /\ UNCHANGED ret

Run_rough_clean ==
    /\ pc = "called" /\ call.fn = "rough_clean"
    /\ ret' = rough_clean(call.text)
    /\ pc' = "returned"
    /\ UNCHANGED call

Call_apply_rule ==
    /\ pc = "idle"
    /\ \E text \in RawStrings, rules \in RuleLists :
         call' = [fn |-> "apply_rule", text |-> text, rules |-> rules]
    /\ pc' = "called"
    /\ UNCHANGED ret

Run_apply_rule ==
    /\ pc = "called" /\ call.fn = "apply_rule"
    /\ ret' = ApplyRuleRun(call.text, call.rules)
    /\ pc' = "returned"
    /\ UNCHANGED call

Call_guess_supplier_name ==
    /\ pc = "idle"
    /\ \E name \in RawNames, known \in KnownLists, rules \in RuleArgs,
          min_score \in Thresholds :
         call' = [fn |-> "guess_supplier_name", name |-> name, known |-> known,
                  rules |-> rules, min_score |-> min_score]
    /\ pc' = "called"
    /\ UNCHANGED ret

Run_guess_supplier_name ==
    /\ pc = "called" /\ call.fn = "guess_supplier_name"
    /\ ret' = GuessRun(call.name, call.known, call.rules, call.min_score)
    /\ pc' = "returned"
    /\ UNCHANGED call

Call_guess_supplier_name_from_priority ==
    /\ pc = "idle"
    /\ \E names \in NameLists, known \in KnownLists, rules \in ListRuleArgs,
          min_score \in ListThresholds :
         call' = [fn |-> "guess_supplier_name_from_priority", names |-> names,
                  known |-> known, rules |-> rules, min_score |-> min_score]
    /\ pc' = "called"
    /\ UNCHANGED ret

Run_guess_supplier_name_from_priority ==
    /\ pc = "called" /\ call.fn = "guess_supplier_name_from_priority"
    /\ ret' = PriorityRun(call.names, call.known, call.rules, call.min_score)
    /\ pc' = "returned"
    /\ UNCHANGED call

Call_batch_guess_supplier_names ==
    /\ pc = "idle"
    /\ \E names \in NameLists, known \in KnownLists, rules \in ListRuleArgs,
          min_score \in ListThresholds :
         call' = [fn |-> "batch_guess_supplier_names", names |-> names,
                  known |-> known, rules |-> rules, min_score |-> min_score]
    /\ pc' = "called"
    /\ UNCHANGED ret

Run_batch_guess_supplier_names ==
    /\ pc = "called" /\ call.fn = "batch_guess_supplier_names"
    /\ ret' = BatchRun(call.names, call.known, call.rules, call.min_score)
    /\ pc' = "returned"
    /\ UNCHANGED call

Call_fuzzy_guess_supplier_name ==
    /\ pc = "idle"
    /\ \E name \in RawNames, known \in KnownLists, rules \in RuleArgs,
          min_ratio \in Thresholds :
         call' = [fn |-> "fuzzy_guess_supplier_name", name |-> name,
                  known |-> known, rules |-> rules, min_score |-> min_ratio]
    /\ pc' = "called"
    /\ UNCHANGED ret

Run_fuzzy_guess_supplier_name ==
    /\ pc = "called" /\ call.fn = "fuzzy_guess_supplier_name"
    /\ ret' = FuzzyRun(call.name, call.known, call.rules, call.min_score)
    /\ pc' = "returned"
    /\ UNCHANGED call

\* the caller takes the result and is free to call again
Return ==
    pc = "returned" /\ pc' = "idle" /\ call' = NoCall /\ ret' = NoneVal

Next ==
    \/ Call_rough_clean
    \/ Call_apply_rule
    \/ Call_guess_supplier_name
    \/ Call_guess_supplier_name_from_priority
    \/ Call_batch_guess_supplier_names
    \/ Call_fuzzy_guess_supplier_name
    \/ Run_rough_clean
    \/ Run_apply_rule
    \/ Run_guess_supplier_name
    \/ Run_guess_supplier_name_from_priority
    \/ Run_batch_guess_supplier_names
    \/ Run_fuzzy_guess_supplier_name
    \/ Return

Spec == Init /\ [][Next]_vars

\* pc = "returned" after a call of fn
Returned(fn) == pc = "returned" /\ call.fn = fn

(***************************************************************************)
(* Properties                                                              *)
(***************************************************************************)

IsGuess == Returned("guess_supplier_name")

IsFuzzy == Returned("fuzzy_guess_supplier_name")

IsBatch == Returned("batch_guess_supplier_names")

IsPriority == Returned("guess_supplier_name_from_priority")

\* C1: batch_guess_supplier_names(names, refs, min_score=t) returns (it does
\* not raise) the list [guess_supplier_name(n, refs, min_score=t) for n in
\* names], position by position.
C1_BatchEqualsSingle ==
    IsBatch =>
        /\ ~ret.raised
        /\ Len(ret.items) = Len(call.names)
        /\ \A i \in 1..Len(call.names) :
              ret.items[i].value =
                  guess_supplier_name(call.names[i], call.known, call.rules,
                                      call.min_score)

\* a raw string that is a verbatim member of a reference list, passed to
\* guess_supplier_name with no rules in force
VerbatimMemberCall ==
    /\ IsGuess
    /\ ~Truthy(call.rules)
    /\ call.name.tag = "Str"
    /\ InList(call.name.str, call.known)

\* C2 (as stated): for a raw string that is a verbatim member of refs, and
\* any threshold, guess_supplier_name without rules returns raw unchanged.
C2_VerbatimMemberReturned == VerbatimMemberCall => ret.value = call.name

\* C2 (amended): a verbatim member of refs that cleaning and title-casing
\* leave as it is (rough_clean(raw).title() == raw) is returned unchanged
\* whatever the threshold.
C2_CleanVerbatimMemberReturned ==
    (VerbatimMemberCall /\ Title(rough_clean(call.name.str)) = call.name.str)
        => ret.value = call.name

\* a clean member is returned although the threshold is above every score
\* and an earlier entry cleans to the same text
C2_Witness ==
    /\ VerbatimMemberCall
    /\ call.name.str = <<"Z","e","d">>
    /\ call.known = << <<"Z","e","d"," ","A","g">>, <<"Z","e","d">> >>
    /\ call.min_score = 1100
    /\ ret.value = call.name

\* C3: guess_supplier_name returns None when raw is None and when the
\* reference list is empty, whatever the other arguments, by a return that
\* precedes all cleaning and scoring.
C3_AbsentInputGivesNone ==
    (IsGuess /\ (call.name.tag = "None" \/ call.known = <<>>))
        => /\ ret.value = NoneVal
           /\ ret.path \in {"no_name", "no_refs"}

C3_Witness ==
    /\ IsGuess
    /\ call.name.tag = "Str" /\ call.name.str # <<>>
    /\ call.known = <<>>
    /\ Truthy(call.rules)
    /\ ret.value = NoneVal

\* C4: rough_clean(rough_clean(x)) == rough_clean(x) for every string x.
C4_CleanIdempotent == Returned("rough_clean") => rough_clean(ret) = ret

\* C5: if guess_supplier_name with threshold t2 returns the entry selected
\* by scoring, then with any threshold t1 <= t2 it returns that same entry;
\* and a cleaned fallback at t stays a cleaned fallback at every t2 >= t.
C5_ThresholdMonotone ==
    IsGuess =>
        \A t \in Thresholds :
            LET other == GuessRun(call.name, call.known, call.rules, t)
            IN  /\ (ret.path = "match" /\ t <= call.min_score)
                    => (other.path = "match" /\ other.value = ret.value)
                /\ (ret.path = "fallback" /\ t >= call.min_score)
                    => (other.path = "fallback" /\ other.value = ret.value)

\* a fuzzy match under a positive threshold, with a lower threshold to compare
C5_Witness ==
    /\ IsGuess
    /\ ret.path = "match"
    /\ call.min_score = 500
    /\ ret.best_score < 1000

\* the first rule of a list whose condition holds on text t
SomeRuleHolds(t, rules) == \E i \in 1..Len(rules) : RuleHolds(rules[i], t)

FirstHolding(t, rules) ==
    CHOOSE i \in 1..Len(rules) :
        /\ RuleHolds(rules[i], t)
        /\ \A j \in 1..(i - 1) : ~RuleHolds(rules[j], t)

\* a call of guess_supplier_name in which some rule's condition holds
RuleCall ==
    /\ IsGuess
    /\ call.name.tag = "Str"
    /\ call.known # <<>>
    /\ Truthy(call.rules)
    /\ SomeRuleHolds(rough_clean(call.name.str), call.rules.list)

RuleReplacement ==
    call.rules.list[FirstHolding(rough_clean(call.name.str),
                                 call.rules.list)].replacement

\* C6 (as stated): when some rule's condition holds on the cleaned raw name,
\* guess_supplier_name returns the replacement of the first such rule,
\* whatever the threshold and the scores, also when the replacement is not in
\* the reference list.
C6_RuleReplacementReturned == RuleCall => ret.value = Str(RuleReplacement)

\* C6 (amended): the replacement of the first such rule is the candidate; it
\* is returned whenever it is a member of the reference list, and otherwise
\* it is scored like any cleaned name: it is returned unless some entry
\* scores at least the threshold against it, and then that entry is returned.
C6_RuleReplacementIsCandidate ==
    RuleCall =>
        /\ ret.cleaned = RuleReplacement
        /\ InList(RuleReplacement, call.known)
              => (ret.path = "exact" /\ ret.value = Str(RuleReplacement))
        /\ ret.value # Str(RuleReplacement)
              => /\ ret.path = "match"
                 /\ ret.best_score >= call.min_score
                 /\ ret.value = Str(call.known[ret.best_index])

\* the replacement "Ag" of the second rule is returned at threshold 0 although
\* "Zed" scores 1.0 against the raw name "Zed"
C6_Witness ==
    /\ RuleCall
    /\ call.name.str = <<"Z","e","d">>
    /\ call.known = << <<"Z","e","d">>, <<"A","g">> >>
    /\ call.min_score = 0
    /\ FirstHolding(rough_clean(call.name.str), call.rules.list) = 2
    /\ ret.value = Str(<<"A","g">>)

\* entry b of known attains the maximum of scores and reaches threshold t
BestAtLeast(scores, b, t) ==
    /\ b \in 1..Len(scores)
    /\ \A j \in 1..Len(scores) : scores[j] <= scores[b]
    /\ scores[b] >= t

\* value is licensed as a result for candidate under scores: it is no
\* reference entry, or it is the candidate itself, or it is a best-scoring
\* entry whose score reaches the threshold
Licensed(value, candidate, known, scores, t) ==
    (value.tag = "Str" /\ InList(value.str, known))
        => \/ value.str = candidate
           \/ \E b \in 1..Len(known) :
                 value.str = known[b] /\ BestAtLeast(scores, b, t)

\* the ratios of fuzzy_guess_supplier_name, in thousandths rounded down
RECURSIVE RatioScores(_, _)
RatioScores(target, known) ==
    IF known = <<>> THEN <<>>
    ELSE LET r == Ratio(target, rough_clean(known[1]))
         IN  <<(1000 * r.num) \div r.den>> \o RatioScores(target, Tail(known))

\* C7: guess_supplier_name, batch_guess_supplier_names (per item) and
\* fuzzy_guess_supplier_name return a reference-list entry only if it is the
\* candidate string itself or it is a scoring argmax whose score against the
\* cleaned candidate is >= the threshold of the call.
C7_EntryOnlyIfCandidateOrAboveThreshold ==
    /\ (IsGuess /\ call.name.tag = "Str" /\ call.known # <<>>) =>
          LET candidate == Candidate(call.name.str, call.rules)
          IN  Licensed(ret.value, candidate, call.known,
                       SingleScores(rough_clean(candidate), CleanAll(call.known)),
                       call.min_score)
    /\ (IsFuzzy /\ call.name.tag = "Str" /\ call.known # <<>>) =>
          LET candidate == Candidate(call.name.str, call.rules)
          IN  Licensed(ret.value, candidate, call.known,
                       RatioScores(rough_clean(candidate), call.known),
                       call.min_score)
    /\ (IsBatch /\ ~ret.raised /\ call.known # <<>>) =>
          \A i \in 1..Len(call.names) :
              call.names[i].tag = "Str" =>
                  LET candidate == Candidate(Strip(call.names[i].str), call.rules)
                  IN  Licensed(ret.items[i].value, candidate, call.known,
                               BatchScores(build_tfidf_matcher(call.known),
                                           rough_clean(candidate)),
                               call.min_score)

\* a reference entry other than the candidate is returned for a score between
\* the thresholds 0.5 and 1.0
C7_Witness ==
    /\ IsGuess
    /\ ret.path = "match"
    /\ call.min_score = 500
    /\ ret.best_score >= 500 /\ ret.best_score < 1000
    /\ ret.value.str # ret.cleaned
    /\ InList(ret.value.str, call.known)

\* the candidates of a priority list that are neither None nor blank
NonBlank(names, i) == names[i].tag = "Str" /\ Strip(names[i].str) # <<>>

HasNonBlank(names) == \E i \in 1..Len(names) : NonBlank(names, i)

FirstNonBlank(names) ==
    CHOOSE i \in 1..Len(names) :
        NonBlank(names, i) /\ \A j \in 1..(i - 1) : ~NonBlank(names, j)

\* C8 (as stated): guess_supplier_name_from_priority skips every candidate
\* that is None or blank and returns the result of guess_supplier_name on the
\* first remaining candidate, examining no later one; it returns None when
\* there is no non-blank candidate or the reference list is empty.
C8_FirstRemainingCandidate ==
    IsPriority =>
        IF call.known = <<>> \/ ~HasNonBlank(call.names)
        THEN ret.value = NoneVal
        ELSE /\ ret.examined = FirstNonBlank(call.names)
             /\ ret.value =
                  guess_supplier_name(call.names[FirstNonBlank(call.names)],
                                      call.known, call.rules, call.min_score)

\* C8 (amended): the result is that of guess_supplier_name on the first
\* remaining candidate with its leading and trailing whitespace stripped.
C8_FirstRemainingCandidateStripped ==
    IsPriority =>
        IF call.known = <<>> \/ ~HasNonBlank(call.names)
        THEN ret.value = NoneVal
        ELSE /\ ret.examined = FirstNonBlank(call.names)
             /\ ret.value =
                  guess_supplier_name(
                      Str(Strip(call.names[FirstNonBlank(call.names)].str)),
                      call.known, call.rules, call.min_score)

\* a blank candidate is skipped, the next one is resolved and the one after
\* it is not examined
C8_Witness ==
    /\ IsPriority
    /\ call.known # <<>>
    /\ Len(call.names) = 2
    /\ call.names[1] = Str(<<" ">>)
    /\ call.names[2] = Str(<<"\t","o","x">>)
    /\ ret.examined = 2
    /\ ret.value = Str(<<"O","x">>)

\* C9: apply_rule returns the replacement of the first rule, in list order,
\* whose condition holds on the cleaned text, and evaluates no later rule;
\* when no condition holds (an empty list included) it returns
\* rough_clean(text).title().
C9_FirstRuleWins ==
    Returned("apply_rule") =>
        LET t == rough_clean(call.text)
        IN  IF SomeRuleHolds(t, call.rules)
            THEN /\ ret.out = call.rules[FirstHolding(t, call.rules)].replacement
                 /\ ret.evaluated = FirstHolding(t, call.rules)
            ELSE /\ ret.out = Title(rough_clean(call.text))
                 /\ ret.evaluated = Len(call.rules)

\* two rules hold on the text and the first one's replacement is returned
C9_Witness ==
    /\ Returned("apply_rule")
    /\ Len(call.rules) = 2
    /\ RuleHolds(call.rules[1], rough_clean(call.text))
    /\ RuleHolds(call.rules[2], rough_clean(call.text))
    /\ call.rules[1].replacement # call.rules[2].replacement
    /\ ret.out = call.rules[1].replacement
    /\ ret.evaluated = 1

\* the smallest index attaining the maximum of scores
FirstMaximal(scores) ==
    CHOOSE i \in 1..Len(scores) :
        /\ \A j \in 1..Len(scores) : scores[j] <= scores[i]
        /\ \A j \in 1..(i - 1) : scores[j] # scores[i]

Scored(r) == r.path \in {"match", "fallback"}

\* several entries attain the maximum of scores
Tied(scores) ==
    Cardinality({i \in 1..Len(scores) :
                    \A j \in 1..Len(scores) : scores[j] <= scores[i]}) >= 2

\* best_index is the first maximal entry whenever several entries tie
FirstOfTied(best_index, scores) ==
    Tied(scores) => best_index = FirstMaximal(scores)

\* the vector strategy selects the first of several maximal entries
C10_VectorFirstMaximal ==
    /\ (IsGuess /\ Scored(ret)) =>
          FirstOfTied(ret.best_index,
                      SingleScores(rough_clean(ret.cleaned), CleanAll(call.known)))
    /\ (IsBatch /\ ~ret.raised) =>
          \A i \in 1..Len(ret.items) :
              Scored(ret.items[i]) =>
                  FirstOfTied(ret.items[i].best_index,
                              BatchScores(build_tfidf_matcher(call.known),
                                          rough_clean(ret.items[i].cleaned)))

\* the ratio strategy selects the first of several maximal entries
C10_RatioFirstMaximal ==
    (IsFuzzy /\ Scored(ret)) =>
        FirstOfTied(ret.best_index,
                    RatioScores(rough_clean(ret.cleaned), call.known))

\* the ratio strategy selects the first of several maximal entries when the
\* maximal ratio is not 0
C10_RatioFirstMaximalWhenPositive ==
    (IsFuzzy /\ Scored(ret) /\ ret.best_score.num > 0) =>
        FirstOfTied(ret.best_index,
                    RatioScores(rough_clean(ret.cleaned), call.known))

\* ties occur in both strategies, also between entries that are not the first
C10_TiesReached ==
    /\ IsFuzzy /\ Scored(ret) /\ ret.best_score.num > 0
    /\ Tied(RatioScores(rough_clean(ret.cleaned), call.known))
    /\ ret.best_index = 1

\* C10: in the vector strategy and in the ratio strategy, when several
\* reference-list entries attain the maximal score, the entry selected as
\* best match is the one with the smallest index.
C10_FirstMaximalSelected == C10_VectorFirstMaximal /\ C10_RatioFirstMaximal

\* a call with a raw name and a non-empty reference list
PresentInput == call.name.tag = "Str" /\ call.known # <<>>

\* guess_supplier_name returns a string for every present input
C11_GuessNeverNone == (IsGuess /\ PresentInput) => ret.value.tag = "Str"

\* fuzzy_guess_supplier_name returns a string for every present input
C11_FuzzyNeverNone == (IsFuzzy /\ PresentInput) => ret.value.tag = "Str"

\* fuzzy_guess_supplier_name returns a string for every present input when
\* the threshold is above 0 or some reference entry has a ratio above 0
C11_FuzzyNeverNoneWhenSelected ==
    (IsFuzzy /\ PresentInput /\ (call.min_score > 0 \/ ret.best_index > 0)) =>
        ret.value.tag = "Str"

\* calls with a threshold of 0 in which every reference entry scores 0
C11_ZeroScoresReached ==
    /\ IsGuess /\ PresentInput /\ Scored(ret)
    /\ call.min_score = 0 /\ ret.best_score = 0
    /\ ret.value = Str(call.known[1])

\* C11: for every non-None raw name, every non-empty reference list and
\* every threshold, thresholds <= 0 included, guess_supplier_name and
\* fuzzy_guess_supplier_name return a string, never None, even when every
\* reference entry scores 0 against the cleaned candidate.
C11_NoneOnlyForAbsentInput == C11_GuessNeverNone /\ C11_FuzzyNeverNone

=============================================================================
